---- MODULE Spec2Model ----
(***************************************************************************)
(* Model of get_data.py: the GTZAN download script.  main tries Kaggle,    *)
(* falls back to Hugging Face, fetches three index files and exits.  The   *)
(* destination directory is a set of paths (tuples of names below the      *)
(* download directory, << >> being the directory itself); the log file is  *)
(* the sequence of lines the run has written; every external call (API,    *)
(* hub, HTTP, tar, filesystem) returns or raises, chosen nondeterminis-    *)
(* tically.                                                                *)
(***************************************************************************)
EXTENDS Integers, Sequences, FiniteSets, TLC

VARIABLES fs, dest0, pc, phase, idx, exit_code, log, raised, hist

vars == <<fs, dest0, pc, phase, idx, exit_code, log, raised, hist>>

(***************************************************************************)
(* Paths under download_dir                                                *)
(***************************************************************************)
Root == << >>
DataDir == <<"Data">>
SourceDir == <<"Data", "genres_original">>
DataOther == <<"Data", "images_original">>
TargetDir == <<"genres">>
TargetNested == <<"genres", "genres_original">>
HubDir == <<"data">>
NestedFile == <<"data", "genres.tar.gz">>
TargetPath == <<"genres.tar.gz">>

\* len(ADDITIONAL_FILES)
NumIndexFiles == 3

\* os.path.basename(url) of the k-th entry of ADDITIONAL_FILES
IndexFile(k) ==
  CASE k = 1 -> <<"train_filtered.txt">>
    [] k = 2 -> <<"valid_filtered.txt">>
    [] OTHER -> <<"test_filtered.txt">>

IndexFiles == {IndexFile(k) : k \in 1..NumIndexFiles}

Paths ==
  {Root, DataDir, SourceDir, DataOther, TargetDir, TargetNested, HubDir,
   NestedFile, TargetPath} \cup IndexFiles

\* the paths that are directories when they exist
Dirs == {Root, DataDir, SourceDir, DataOther, TargetDir, TargetNested, HubDir}

Parent(p) == SubSeq(p, 1, Len(p) - 1)

IsPrefix(p, q) == Len(p) <= Len(q) /\ SubSeq(q, 1, Len(p)) = p

\* a path exists only inside an existing directory
WellFormed(f) == \A p \in f : p # Root => Parent(p) \in f

\* every state the destination can be in before the run (absent included)
DestStates == {f \in SUBSET Paths : WellFormed(f)}

\* the subtree rooted at p
Under(f, p) == {q \in f : IsPrefix(p, q)}

(***************************************************************************)
(* Filesystem primitives                                                   *)
(***************************************************************************)
\* os.rename(src, dst): the subtree at src reappears at dst (an existing file
\* at dst is replaced)
Rename(f, src, dst) ==
  (f \ Under(f, src))
    \cup {dst \o SubSeq(q, Len(src) + 1, Len(q)) : q \in Under(f, src)}

\* shutil.move(src, dst): into dst when dst is an existing directory (an error
\* if the name is taken there), else a rename onto dst
ShutilMove(f, src, dst) ==
  IF dst \in f /\ dst \in Dirs
    THEN LET real == dst \o <<src[Len(src)]>>
         IN IF real \in f
              THEN [fs |-> f, err |-> "shutil.Error"]
              ELSE [fs |-> Rename(f, src, real), err |-> "none"]
    ELSE [fs |-> Rename(f, src, dst), err |-> "none"]

\* a removal that empties dir and leaves dir itself
RmtreeContentsOnly(f, dir, kept) ==
  IF dir \in kept
    THEN [fs |-> (f \ Under(f, dir)) \cup (kept \cap Under(f, dir)), err |-> "OSError"]
    ELSE [fs |-> (f \ Under(f, dir)) \cup (f \cap {dir}), err |-> "none"]

\* shutil.rmtree(dir): the whole subtree goes, or the call raises OSError
\* with dir and the part `kept` of its subtree still there (kept without dir:
\* the call succeeds)
Rmtree(f, dir, kept) ==
  IF dir \in kept
    THEN [fs |-> (f \ Under(f, dir)) \cup (kept \cap Under(f, dir)), err |-> "OSError"]
    ELSE [fs |-> f \ Under(f, dir), err |-> "none"]

\* what a call of shutil.rmtree(Data) can leave behind
RmtreeOutcomes == {k \in SUBSET {DataDir, SourceDir, DataOther} : k = {} \/ DataDir \in k}

\* os.makedirs(download_dir, exist_ok=True): what it can do in state f
MakedirsOutcomes(f) ==
  IF Root \in f THEN {"ok", "KeyboardInterrupt"}
                ELSE {"ok", "OSError", "KeyboardInterrupt"}

(***************************************************************************)
(* Log lines                                                               *)
(***************************************************************************)
L(level, msg, arg) == [level |-> level, msg |-> msg, arg |-> arg]

HasLog(msg) == \E i \in DOMAIN log : log[i].msg = msg

Functions ==
  {"download_from_kaggle", "move_and_cleanup_kaggle_download",
   "download_from_huggingface", "move_and_extract_hf_download",
   "download_index_files", "main"}

\* raised maps each function to the exception that last left it, and "call" to
\* the exception the last failing library call raised ("none": none yet)
RaisedKeys == Functions \cup {"call"}

(***************************************************************************)
(* move_and_cleanup_kaggle_download                                        *)
(***************************************************************************)
\* the same function without the os.path.exists(source_dir) test
MoveAndCleanupUnguarded(f, kept) ==
  LET m == IF SourceDir \in f
             THEN ShutilMove(f, SourceDir, TargetDir)
             ELSE [fs |-> f, err |-> "OSError"]
      lg1 == <<L("INFO", "Moving source_dir to target_dir", 0)>>
  IN IF m.err # "none"
       THEN [fs |-> m.fs, err |-> m.err, log |-> lg1]
       ELSE IF DataDir \in m.fs
              THEN LET r == Rmtree(m.fs, DataDir, kept)
                   IN [fs |-> r.fs, err |-> r.err,
                       log |-> lg1 \o <<L("INFO", "Deleting the now-empty Data directory", 0)>>]
              ELSE [fs |-> m.fs, err |-> "none", log |-> lg1]

\* the same function with the rmtree of Data left out
MoveAndCleanupNoRmtree(f, kept) ==
  LET moved == SourceDir \in f
      m == IF moved THEN ShutilMove(f, SourceDir, TargetDir)
                    ELSE [fs |-> f, err |-> "none"]
      lg1 == IF moved THEN <<L("INFO", "Moving source_dir to target_dir", 0)>> ELSE << >>
  IN [fs |-> m.fs, err |-> m.err, log |-> lg1]

\* the function's result on destination f: the new destination, the exception
\* that escapes it ("none" when it returns) and the lines it logs
MoveAndCleanup(f, kept) ==
  LET moved == SourceDir \in f
      m == IF moved THEN ShutilMove(f, SourceDir, TargetDir)
                    ELSE [fs |-> f, err |-> "none"]
      lg1 == IF moved THEN <<L("INFO", "Moving source_dir to target_dir", 0)>> ELSE << >>
  IN IF m.err # "none"
       THEN [fs |-> m.fs, err |-> m.err, log |-> lg1]
       ELSE IF DataDir \in m.fs
              THEN LET r == Rmtree(m.fs, DataDir, kept)
                   IN [fs |-> r.fs, err |-> r.err,
                       log |-> lg1 \o <<L("INFO", "Deleting the now-empty Data directory", 0)>>]
              ELSE [fs |-> m.fs, err |-> "none", log |-> lg1]

(***************************************************************************)
(* Exception handlers.  Each maps the exception raised inside a try block  *)
(* to the exception that leaves the function (sig) and the lines logged.   *)
(***************************************************************************)
\* download_from_kaggle with the interrupt clause treated as recoverable
KaggleExceptNoInterrupt(type) ==
  CASE type = "ApiException" ->
         [sig |-> "RuntimeError", log |-> <<L("ERROR", "Kaggle API error", 0)>>]
    [] OTHER ->
         [sig |-> "RuntimeError",
          log |-> <<L("ERROR", "Unexpected error during Kaggle download", 0)>>]

\* download_from_kaggle: the except clauses
KaggleExcept(type) ==
  CASE type = "ApiException" ->
         [sig |-> "RuntimeError", log |-> <<L("ERROR", "Kaggle API error", 0)>>]
    [] type = "KeyboardInterrupt" ->
         [sig |-> "SystemExit",
          log |-> <<L("ERROR", "Kaggle download interrupted by user.", 0)>>]
    [] OTHER ->
         [sig |-> "RuntimeError",
          log |-> <<L("ERROR", "Unexpected error during Kaggle download", 0)>>]

\* download_from_huggingface: the except clauses
HFExcept(type) ==
  CASE type = "HTTPError" ->
         [sig |-> "RuntimeError",
          log |-> <<L("ERROR", "HTTP error during Hugging Face download", 0)>>]
    [] type = "ConnectionError" ->
         [sig |-> "RuntimeError",
          log |-> <<L("ERROR", "Connection error during Hugging Face download", 0)>>]
    [] type = "KeyboardInterrupt" ->
         [sig |-> "SystemExit",
          log |-> <<L("ERROR", "Hugging Face download interrupted by user.", 0)>>]
    [] OTHER ->
         [sig |-> "RuntimeError",
          log |-> <<L("ERROR", "Unexpected error during Hugging Face download", 0)>>]

\* move_and_extract_hf_download with every extraction error converted
ExtractExceptAll(type) ==
  IF type = "KeyboardInterrupt"
    THEN [sig |-> type, log |-> << >>]
    ELSE [sig |-> "RuntimeError",
          log |-> <<L("ERROR", "Failed to extract target_path", 0)>>]

\* move_and_extract_hf_download: except tarfile.TarError only
ExtractExcept(type) ==
  IF type = "TarError"
    THEN [sig |-> "RuntimeError",
          log |-> <<L("ERROR", "Failed to extract target_path", 0)>>]
    ELSE [sig |-> type, log |-> << >>]

\* download_index_files with the errors of one URL logged and swallowed
IndexExceptContinue(type, k) ==
  CASE type = "KeyboardInterrupt" ->
         [sig |-> "SystemExit",
          log |-> <<L("ERROR", "Index file download interrupted by user.", k)>>]
    [] OTHER ->
         [sig |-> "none",
          log |-> <<L("ERROR", "Unexpected error during index file download", k)>>]

\* download_index_files: the except clauses, for the k-th URL
IndexExcept(type, k) ==
  CASE type = "HTTPError" ->
         [sig |-> "RuntimeError",
          log |-> <<L("ERROR", "HTTP error during index file download", k)>>]
    [] type = "ConnectionError" ->
         [sig |-> "RuntimeError",
          log |-> <<L("ERROR", "Connection error during index file download", k)>>]
    [] type = "KeyboardInterrupt" ->
         [sig |-> "SystemExit",
          log |-> <<L("ERROR", "Index file download interrupted by user.", k)>>]
    [] OTHER ->
         [sig |-> "RuntimeError",
          log |-> <<L("ERROR", "Unexpected error during index file download", k)>>]

\* main with Kaggle's RuntimeError left uncaught
MainExceptNoFallback(ph, sig) ==
  IF sig = "RuntimeError" /\ ph = "B" THEN "fail" ELSE "propagate"

\* main with the Hugging Face attempt retried after a RuntimeError
MainExceptRetry(ph, sig) ==
  IF sig = "RuntimeError" THEN "fallback" ELSE "propagate"

\* main: what follows an exception leaving the try block of phase ph
\* ("A": Kaggle, "B": Hugging Face).  Only RuntimeError is caught.
MainExcept(ph, sig) ==
  IF sig = "RuntimeError"
    THEN IF ph = "A" THEN "fallback" ELSE "fail"
    ELSE "propagate"

\* the process's exit status when exception sig ends it
ExitStatus(sig) ==
  CASE sig = "SystemExit" -> 1
    [] sig = "KeyboardInterrupt" -> 130
    [] OTHER -> 1

\* A library call raised o and the exception leaves adapter fn as h.sig, with
\* the destination at f, the log extended by lg and the helpers' exceptions
\* recorded in rs: main's try block of the current phase handles it.
\* hs is the record of normalizer calls.
LeaveWith(fn, o, h, f, lg, rs, hs) ==
  LET nxt == MainExcept(phase, h.sig)
      r1 == [rs EXCEPT ![fn] = h.sig, !["call"] = o]
  IN /\ fs' = f
     /\ hist' = hs
     /\ UNCHANGED <<dest0, idx>>
     /\ CASE nxt = "fallback" ->
               /\ log' = log \o lg \o h.log \o <<L("WARNING", "Kaggle download failed", 0)>>
               /\ pc' = "hf_makedirs"
               /\ phase' = "B"
               /\ raised' = r1
               /\ UNCHANGED exit_code
          [] nxt = "fail" ->
               /\ log' = log \o lg \o h.log
                           \o <<L("WARNING", "Hugging Face download failed", 0),
                                L("ERROR", "Failed to download dataset from any source.", 0)>>
               /\ pc' = "done"
               /\ exit_code' = 1
               /\ raised' = [r1 EXCEPT !["main"] = "SystemExit"]
               /\ UNCHANGED phase
          [] OTHER ->
               /\ log' = log \o lg \o h.log
               /\ pc' = "done"
               /\ exit_code' = ExitStatus(h.sig)
               /\ raised' = [r1 EXCEPT !["main"] = h.sig]
               /\ UNCHANGED phase

Leave(fn, o, h, f, lg, rs) == LeaveWith(fn, o, h, f, lg, rs, hist)

\* an exception that no clause of the adapter handles (raised outside its try)
Raw(type) == [sig |-> type, log |-> << >>]

(***************************************************************************)
(* Initial states                                                          *)
(***************************************************************************)
Init ==
  /\ fs \in DestStates
  /\ dest0 = fs
  /\ pc = "kaggle_makedirs"
  /\ phase = "A"
  /\ idx = 0
  /\ exit_code = -1
  /\ log = << >>
  /\ raised = [f \in RaisedKeys |-> "none"]
  /\ hist = << >>

(***************************************************************************)
(* Source A: download_from_kaggle                                          *)
(***************************************************************************)
\* main starts the Kaggle attempt; the adapter logs and creates the directory
KaggleMakedirs ==
  /\ pc = "kaggle_makedirs"
  /\ \E o \in MakedirsOutcomes(fs) :
       LET lg == <<L("INFO", "Starting Kaggle download attempt.", 0),
                   L("INFO", "Attempting to download dataset from Kaggle.", 0)>>
       IN IF o = "ok"
            THEN /\ fs' = fs \cup {Root}
                 /\ log' = log \o lg
                 /\ pc' = "kaggle_authenticate"
                 /\ UNCHANGED <<dest0, phase, idx, exit_code, raised, hist>>
            ELSE Leave("download_from_kaggle", o, Raw(o), fs, lg, raised)

\* KaggleApi() and api.authenticate()
KaggleAuthenticate ==
  /\ pc = "kaggle_authenticate"
  /\ \E o \in {"ok", "Exception", "KeyboardInterrupt"} :
       IF o = "ok"
         THEN /\ pc' = "kaggle_download"
              /\ UNCHANGED <<dest0, fs, phase, idx, exit_code, log, raised, hist>>
         ELSE Leave("download_from_kaggle", o, KaggleExcept(o), fs, << >>, raised)

\* what a download that fails part-way can leave unzipped
KaggleLeftovers == {{}, {DataDir}, {DataDir, SourceDir}}

\* api.dataset_download_files(dataset, path=download_dir, unzip=True)
KaggleDownload ==
  /\ pc = "kaggle_download"
  /\ \/ /\ fs' = fs \cup {DataDir, SourceDir, DataOther}
        /\ pc' = "kaggle_normalize"
        /\ UNCHANGED <<dest0, phase, idx, exit_code, log, raised, hist>>
     \/ \E o \in {"ApiException", "Exception", "KeyboardInterrupt"} :
          \E left \in KaggleLeftovers :
            Leave("download_from_kaggle", o, KaggleExcept(o), fs \cup left, << >>, raised)

\* move_and_cleanup_kaggle_download(download_dir), then the success line
KaggleNormalize ==
  /\ pc = "kaggle_normalize"
  /\ \E kept \in RmtreeOutcomes :
       LET r == MoveAndCleanup(fs, kept)
           rs == [raised EXCEPT !["move_and_cleanup_kaggle_download"] = r.err]
           h == [pre |-> fs, post |-> r.fs, err |-> r.err]
       IN IF r.err = "none"
            THEN /\ fs' = r.fs
                 /\ log' = log \o r.log
                      \o <<L("INFO", "Successfully downloaded and organized dataset from Kaggle.", 0)>>
                 /\ pc' = "index_start"
                 /\ raised' = rs
                 /\ hist' = Append(hist, h)
                 /\ UNCHANGED <<dest0, phase, idx, exit_code>>
            ELSE LeaveWith("download_from_kaggle", r.err, KaggleExcept(r.err), r.fs, r.log,
                           rs, Append(hist, h))

(***************************************************************************)
(* download_index_files                                                    *)
(***************************************************************************)
\* the first log line and os.makedirs, before the loop
IndexStart ==
  /\ pc = "index_start"
  /\ \E o \in MakedirsOutcomes(fs) :
       LET lg == <<L("INFO", "Downloading index GTZAN files...", 0)>>
       IN IF o = "ok"
            THEN /\ fs' = fs \cup {Root}
                 /\ log' = log \o lg
                 /\ idx' = 1
                 /\ pc' = "index_get"
                 /\ UNCHANGED <<dest0, phase, exit_code, raised, hist>>
            ELSE Leave("download_index_files", o, Raw(o), fs, lg, raised)

\* one iteration of the loop: requests.get, raise_for_status, write the file.
\* After the last URL the function returns and main calls sys.exit(0).
IndexGet ==
  /\ pc = "index_get"
  /\ \E o \in {"ok", "HTTPError", "ConnectionError", "Exception", "KeyboardInterrupt"} :
       LET h == IF o = "ok"
                  THEN [sig |-> "none", log |-> <<L("INFO", "Downloaded", idx)>>]
                  ELSE IndexExcept(o, idx)
       IN IF h.sig = "none"
            THEN /\ fs' = IF o = "ok" THEN fs \cup {IndexFile(idx)} ELSE fs
                 /\ log' = log \o h.log
                 /\ UNCHANGED <<dest0, phase, hist>>
                 /\ IF idx = NumIndexFiles
                      THEN /\ pc' = "done"
                           /\ exit_code' = 0
                           /\ raised' = [raised EXCEPT !["download_index_files"] = "none",
                                                       !["main"] = "SystemExit"]
                           /\ UNCHANGED idx
                      ELSE /\ idx' = idx + 1
                           /\ UNCHANGED <<pc, exit_code, raised>>
            ELSE Leave("download_index_files", o, h, fs, << >>, raised)

(***************************************************************************)
(* Source B: download_from_huggingface                                     *)
(***************************************************************************)
\* main starts the Hugging Face attempt; the adapter logs and creates the
\* directory
HFMakedirs ==
  /\ pc = "hf_makedirs"
  /\ \E o \in MakedirsOutcomes(fs) :
       LET lg == <<L("INFO", "Starting Hugging Face download attempt.", 0),
                   L("INFO", "Attempting to download dataset from Hugging Face.", 0)>>
       IN IF o = "ok"
            THEN /\ fs' = fs \cup {Root}
                 /\ log' = log \o lg
                 /\ pc' = "hf_download"
                 /\ UNCHANGED <<dest0, phase, idx, exit_code, raised, hist>>
            ELSE Leave("download_from_huggingface", o, Raw(o), fs, lg, raised)

\* hf_hub_download(filename="data/genres.tar.gz", local_dir=download_dir)
HFDownload ==
  /\ pc = "hf_download"
  /\ \/ /\ fs' = fs \cup {HubDir, NestedFile}
        /\ pc' = "hf_move"
        /\ UNCHANGED <<dest0, phase, idx, exit_code, log, raised, hist>>
     \/ \E o \in {"HTTPError", "ConnectionError", "Exception", "KeyboardInterrupt"} :
          Leave("download_from_huggingface", o, HFExcept(o), fs, << >>, raised)

\* move_and_extract_hf_download: the archive goes to the destination's root
HFMove ==
  /\ pc = "hf_move"
  /\ LET m == IF NestedFile \in fs
                THEN ShutilMove(fs, NestedFile, TargetPath)
                ELSE [fs |-> fs, err |-> "none"]
         lg == IF NestedFile \in fs
                 THEN <<L("INFO", "Moving nested_file_path to target_path", 0)>>
                 ELSE << >>
     IN /\ fs' = m.fs
        /\ log' = log \o lg \o <<L("INFO", "Extracting target_path...", 0)>>
        /\ pc' = "hf_extract"
        /\ UNCHANGED <<dest0, phase, idx, exit_code, raised, hist>>

\* what tarfile.open and tar.extractall can do on destination f
ExtractOutcomes(f) ==
  IF TargetPath \in f THEN {"ok", "TarError", "OSError", "KeyboardInterrupt"}
                      ELSE {"OSError"}

\* a failing extraction that also removes the archive
ExtractFailedCleanup(f, partial) ==
  (IF partial /\ TargetPath \in f THEN f \cup {TargetDir} ELSE f) \ {TargetPath}

\* the destination after an extraction that raised: the entries extracted so
\* far stay, and so does the archive
ExtractFailed(f, partial) ==
  IF partial /\ TargetPath \in f THEN f \cup {TargetDir} ELSE f

\* move_and_extract_hf_download: tarfile.open(...).extractall(download_dir).
\* A failing extraction may already have written part of the tree.
HFExtract ==
  /\ pc = "hf_extract"
  /\ \E o \in ExtractOutcomes(fs) :
       IF o = "ok"
         THEN /\ fs' = fs \cup {TargetDir}
              /\ log' = log \o <<L("INFO", "Successfully extracted target_path", 0)>>
              /\ pc' = "hf_remove"
              /\ UNCHANGED <<dest0, phase, idx, exit_code, raised, hist>>
         ELSE \E partial \in BOOLEAN :
                LET f == ExtractFailed(fs, partial)
                    eh == ExtractExcept(o)
                    rs == [raised EXCEPT !["move_and_extract_hf_download"] = eh.sig]
                IN Leave("download_from_huggingface", o, HFExcept(eh.sig), f, eh.log, rs)

\* the same step with os.remove(target_path) left out
HFRemoveKeepArchive ==
  /\ pc = "hf_remove"
  /\ log' = log
       \o <<L("INFO", "Removed archive file target_path after extraction.", 0),
            L("INFO", "Successfully downloaded and organized dataset from Hugging Face.", 0)>>
  /\ pc' = "index_start"
  /\ UNCHANGED <<fs, dest0, phase, idx, exit_code, raised, hist>>

\* move_and_extract_hf_download: os.remove(target_path); the adapter's success
\* line follows
HFRemove ==
  /\ pc = "hf_remove"
  /\ fs' = fs \ {TargetPath}
  /\ log' = log
       \o <<L("INFO", "Removed archive file target_path after extraction.", 0),
            L("INFO", "Successfully downloaded and organized dataset from Hugging Face.", 0)>>
  /\ pc' = "index_start"
  /\ UNCHANGED <<dest0, phase, idx, exit_code, raised, hist>>

(***************************************************************************)
(* The run of main                                                         *)
(***************************************************************************)
Next ==
  \/ KaggleMakedirs
  \/ KaggleAuthenticate
  \/ KaggleDownload
  \/ KaggleNormalize
  \/ IndexStart
  \/ IndexGet
  \/ HFMakedirs
  \/ HFDownload
  \/ HFMove
  \/ HFExtract
  \/ HFRemove

Spec == Init /\ [][Next]_vars

Terminated == pc = "done"

\* main is sequential and every library call returns or raises: a step that
\* can be taken is eventually taken
FairSpec == Spec /\ WF_vars(Next)

(***************************************************************************)
(* move_and_cleanup_kaggle_download on its own: called repeatedly on an    *)
(* arbitrary destination                                                   *)
(***************************************************************************)
MaxCalls == 2

InitNormalizer ==
  /\ fs \in DestStates
  /\ dest0 = fs
  /\ pc = "normalizer"
  /\ phase = "A"
  /\ idx = 0
  /\ exit_code = -1
  /\ log = << >>
  /\ raised = [f \in RaisedKeys |-> "none"]
  /\ hist = << >>

NormalizerCall ==
  /\ pc = "normalizer"
  /\ Len(hist) < MaxCalls
  /\ \E kept \in RmtreeOutcomes :
       LET r == MoveAndCleanup(fs, kept)
       IN /\ fs' = r.fs
          /\ log' = log \o r.log
          /\ raised' = [raised EXCEPT !["move_and_cleanup_kaggle_download"] = r.err]
          /\ hist' = Append(hist, [pre |-> fs, post |-> r.fs, err |-> r.err])
          /\ UNCHANGED <<dest0, pc, phase, idx, exit_code>>

NextNormalizer == NormalizerCall

SpecNormalizer == InitNormalizer /\ [][NextNormalizer]_vars

(***************************************************************************)
(* Properties                                                              *)
(***************************************************************************)
KaggleErrorLines == {"Kaggle API error", "Unexpected error during Kaggle download"}

IndexErrorLines ==
  {"HTTP error during index file download",
   "Connection error during index file download",
   "Unexpected error during index file download"}

KaggleFailedRecoverably == \E i \in DOMAIN log : log[i].msg \in KaggleErrorLines

KaggleReturned ==
  HasLog("Successfully downloaded and organized dataset from Kaggle.")

HFAttempted == HasLog("Attempting to download dataset from Hugging Face.")

IndexFetchFailed == \E i \in DOMAIN log : log[i].msg \in IndexErrorLines

BothReportedFailed ==
  HasLog("Kaggle download failed") /\ HasLog("Hugging Face download failed")

Interrupted == raised["call"] = "KeyboardInterrupt"

\* C1: when download_from_kaggle fails inside its try block with a
\* non-interrupt error, the Hugging Face attempt starts after that failure and
\* before the run terminates.
C1_FallbackAttempted ==
  \A i \in DOMAIN log :
    (log[i].msg \in KaggleErrorLines /\ Terminated) =>
      \E j \in DOMAIN log :
        /\ j > i
        /\ log[j].msg = "Attempting to download dataset from Hugging Face."

C1_Witness ==
  /\ Terminated
  /\ exit_code = 1
  /\ HasLog("Kaggle API error")
  /\ HFAttempted
  /\ HasLog("Failed to download dataset from any source.")

\* C2: the run exits 1 when both sources fail, and once an index-file fetch
\* has failed after a successful dataset download the run never exits 0.
C2_IndexFailureExitsOne ==
  /\ (Terminated /\ BothReportedFailed) => exit_code = 1
  /\ IndexFetchFailed => exit_code # 0

\* C3: on exit code 0 the destination holds genres and the three index files
\* and neither Data nor genres.tar.gz.
C3_SuccessLayout ==
  exit_code = 0 =>
    /\ TargetDir \in fs
    /\ IndexFiles \subseteq fs
    /\ DataDir \notin fs
    /\ TargetPath \notin fs

\* C4: Source B is attempted only when Source A's dataset download failed:
\* after download_from_kaggle has returned, download_from_huggingface is never
\* invoked.
C4_NoFallbackAfterKaggleReturned == KaggleReturned => ~HFAttempted

\* C5: a KeyboardInterrupt in any adapter ends the run at once with a
\* non-zero exit code; nothing is attempted after it.
C5_InterruptFatal ==
  Interrupted =>
    /\ Terminated
    /\ exit_code \in {1, 130}
    /\ raised["main"] \in {"SystemExit", "KeyboardInterrupt"}
    /\ (phase = "A" => ~HFAttempted)

C5_Witness ==
  /\ Interrupted
  /\ phase = "A"
  /\ HasLog("Kaggle download interrupted by user.")
  /\ exit_code = 1
  /\ ~HFAttempted

\* C6: a run that starts without a genres directory and exits 1 with both
\* source attempts reported as failed leaves no genres directory.
C6_NoPartialGenres ==
  (TargetDir \notin dest0 /\ Terminated /\ exit_code = 1 /\ BothReportedFailed)
    => TargetDir \notin fs

\* C7: download_index_files stops at the first failing URL k: the lines
\* before the error are the batch's start and the downloads of URLs 1..k-1 in
\* order, whose files are in place, and the next line is main's report of the
\* RuntimeError, so no GET follows for a URL after k.
C7_StopAtFirstFailure ==
  \A i \in DOMAIN log :
    log[i].msg \in IndexErrorLines =>
      LET k == log[i].arg
      IN /\ i > k
         /\ log[i - k].msg = "Downloading index GTZAN files..."
         /\ \A j \in 1..(k - 1) :
              /\ log[i - k + j] = L("INFO", "Downloaded", j)
              /\ IndexFile(j) \in fs
         /\ i < Len(log)
         /\ log[i + 1].msg \in {"Kaggle download failed", "Hugging Face download failed"}

C7_Witness ==
  /\ \E i \in DOMAIN log :
       /\ log[i].msg = "HTTP error during index file download"
       /\ log[i].arg = 2
  /\ IndexFile(1) \notin dest0
  /\ IndexFile(1) \in fs
  /\ IndexFile(3) \notin fs
  /\ raised["download_index_files"] = "RuntimeError"

ExtractRaised == raised["move_and_extract_hf_download"]

\* C8 as stated: whenever extraction fails, move_and_extract_hf_download
\* raises RuntimeError and the archive is still there.
C8_ExtractFailureRaisesRuntimeError ==
  ExtractRaised \notin {"none", "KeyboardInterrupt"} =>
    /\ ExtractRaised = "RuntimeError"
    /\ TargetPath \in fs

\* C8 amended: a failed extraction never deletes the archive; the function
\* raises RuntimeError exactly for a tarfile.TarError, any other error leaves
\* it unchanged and download_from_huggingface turns it into RuntimeError; the
\* archive is removed only right after a complete extraction.
C8_ArchiveKeptOnFailure ==
  /\ ExtractRaised # "none" =>
       /\ TargetPath \in fs
       /\ ExtractRaised = (IF raised["call"] = "TarError" THEN "RuntimeError"
                                                         ELSE raised["call"])
       /\ (ExtractRaised = "RuntimeError") = HasLog("Failed to extract target_path")
       /\ ExtractRaised # "KeyboardInterrupt" =>
            raised["download_from_huggingface"] = "RuntimeError"
  /\ \A i \in DOMAIN log :
       log[i].msg = "Removed archive file target_path after extraction." =>
         /\ i > 1
         /\ log[i - 1].msg = "Successfully extracted target_path"

C8_Witness ==
  /\ ExtractRaised = "OSError"
  /\ raised["download_from_huggingface"] = "RuntimeError"
  /\ TargetPath \in fs
  /\ TargetPath \notin dest0
  /\ exit_code = 1

\* C9: a second call of move_and_cleanup_kaggle_download right after one that
\* returned raises nothing and leaves the destination as the first left it.
C9_Idempotent ==
  \A i \in 2..Len(hist) :
    hist[i - 1].err = "none" =>
      /\ hist[i].err = "none"
      /\ hist[i].post = hist[i - 1].post

C9_Witness ==
  /\ Len(hist) = 2
  /\ hist[1].err = "none"
  /\ SourceDir \in hist[1].pre
  /\ hist[1].post # hist[1].pre
  /\ hist[2].post = hist[1].post
  /\ TargetDir \in fs

\* everything of destination f that is not Data or inside it
OutsideData(f) == f \ Under(f, DataDir)

\* C10 as stated: without Data/genres_original the call raises nothing and
\* changes nothing, a Data directory included.
C10_NoOpWithoutSource ==
  \A i \in DOMAIN hist :
    SourceDir \notin hist[i].pre =>
      /\ hist[i].err = "none"
      /\ hist[i].post = hist[i].pre

\* C10 amended: without Data/genres_original the call moves nothing and
\* changes nothing outside Data; it is a no-op when Data is absent too, and
\* otherwise deletes Data with all it holds, unless rmtree raises (Data is
\* then still there, with no more than it held).
C10_OnlyDataRemovedWithoutSource ==
  \A i \in DOMAIN hist :
    SourceDir \notin hist[i].pre =>
      /\ OutsideData(hist[i].post) = OutsideData(hist[i].pre)
      /\ DataDir \notin hist[i].pre =>
           /\ hist[i].err = "none"
           /\ hist[i].post = hist[i].pre
      /\ DataDir \in hist[i].pre =>
           \/ /\ hist[i].err = "none"
              /\ hist[i].post = OutsideData(hist[i].pre)
           \/ /\ hist[i].err = "OSError"
              /\ DataDir \in hist[i].post
              /\ hist[i].post \subseteq hist[i].pre

C10_Witness ==
  /\ Len(hist) = 1
  /\ SourceDir \notin hist[1].pre
  /\ DataOther \in hist[1].pre
  /\ hist[1].err = "none"
  /\ DataDir \notin fs
  /\ TargetDir \in fs

\* the three adapters main calls
Adapters ==
  {"download_from_kaggle", "download_from_huggingface", "download_index_files"}

\* C11: every non-interrupt error raised inside an adapter call leaves the
\* adapter as RuntimeError (anything else leaves it only on an interrupt), so
\* a run that ended after a non-interrupt error in Source A attempted Source B.
C11_OnlyRuntimeErrorEscapes ==
  /\ \A fn \in Adapters :
       raised[fn] \notin {"none", "RuntimeError"} => Interrupted
  /\ (Terminated /\ raised["download_from_kaggle"] # "none" /\ phase = "A")
       => Interrupted

\* the number of lines msg in the log
Count(msg) == Cardinality({i \in DOMAIN log : log[i].msg = msg})

KaggleAttemptLine == "Attempting to download dataset from Kaggle."

HFAttemptLine == "Attempting to download dataset from Hugging Face."

\* C12: download_from_kaggle and download_from_huggingface are each invoked
\* at most once per run, and a Hugging Face attempt comes after the Kaggle
\* attempt and after main's report that it failed.
C12_EachSourceAtMostOnce ==
  /\ Count(KaggleAttemptLine) <= 1
  /\ Count(HFAttemptLine) <= 1
  /\ \A j \in DOMAIN log :
       log[j].msg = HFAttemptLine =>
         \E i \in 1..(j - 1) :
           /\ log[i].msg = KaggleAttemptLine
           /\ \E w \in (i + 1)..(j - 1) : log[w].msg = "Kaggle download failed"
  /\ \A i \in DOMAIN log :
       log[i].msg \in {"Kaggle download failed", "Hugging Face download failed"} =>
         \A j \in (i + 1)..Len(log) :
           log[j].msg # (IF log[i].msg = "Kaggle download failed"
                           THEN KaggleAttemptLine ELSE HFAttemptLine)

C12_Witness ==
  /\ Terminated
  /\ Count(KaggleAttemptLine) = 1
  /\ Count(HFAttemptLine) = 1
  /\ BothReportedFailed

\* the lines a successful Hugging Face attempt and index fetch write after
\* the attempt line
HFSuccessLines ==
  <<"Moving nested_file_path to target_path",
    "Extracting target_path...",
    "Successfully extracted target_path",
    "Removed archive file target_path after extraction.",
    "Successfully downloaded and organized dataset from Hugging Face.",
    "Downloading index GTZAN files...",
    "Downloaded", "Downloaded", "Downloaded">>

\* C13: on the Hugging Face path the archive is first moved from
\* data/genres.tar.gz to the destination's root, then extracted, then removed,
\* then the index files are fetched and the run exits 0; the index fetch never
\* runs while the archive is at the destination's root.
C13_HFStepOrder ==
  /\ pc = "hf_extract" => (NestedFile \notin fs /\ TargetPath \in fs)
  /\ pc = "hf_remove" => (TargetPath \in fs /\ TargetDir \in fs)
  /\ (phase = "B" /\ pc \in {"index_start", "index_get"}) =>
       (TargetPath \notin fs /\ TargetDir \in fs)
  /\ (phase = "B" /\ exit_code = 0) =>
       /\ TargetPath \notin fs
       /\ \A j \in DOMAIN log :
            log[j].msg = HFAttemptLine =>
              /\ Len(log) = j + Len(HFSuccessLines)
              /\ \A n \in DOMAIN HFSuccessLines : log[j + n].msg = HFSuccessLines[n]

C13_Witness ==
  /\ phase = "B"
  /\ exit_code = 0
  /\ HasLog("Kaggle API error")
  /\ ~KaggleReturned
  /\ TargetPath \notin fs
  /\ NestedFile \notin fs
  /\ TargetDir \in fs
  /\ TargetDir \notin dest0

IndexStartLine == "Downloading index GTZAN files..."

SourceSuccessLines ==
  {"Successfully downloaded and organized dataset from Kaggle.",
   "Successfully downloaded and organized dataset from Hugging Face."}

\* C14: download_index_files starts only right after a source adapter
\* returned, and the run exits 0 only when the latest call of
\* download_index_files fetched all its URLs without error.
C14_IndexOnlyAfterSuccess ==
  /\ \A i \in DOMAIN log :
       log[i].msg = IndexStartLine =>
         /\ i > 1
         /\ log[i - 1].msg \in SourceSuccessLines
  /\ pc \in {"index_start", "index_get"} =>
       \E i \in DOMAIN log : log[i].msg \in SourceSuccessLines
  /\ exit_code = 0 =>
       /\ Len(log) > NumIndexFiles
       /\ log[Len(log) - NumIndexFiles].msg = IndexStartLine
       /\ \A j \in 1..NumIndexFiles :
            log[Len(log) - NumIndexFiles + j] = L("INFO", "Downloaded", j)
       /\ raised["download_index_files"] = "none"

C14_Witness ==
  /\ exit_code = 0
  /\ phase = "B"
  /\ Count(IndexStartLine) = 2
  /\ IndexFetchFailed
  /\ IndexFiles \subseteq fs

\* C15: when move_and_cleanup_kaggle_download returns, neither Data nor
\* anything that was in it is left under the destination, and genres exists if
\* Data/genres_original existed before the call.
C15_DataGoneAfterReturn ==
  \A i \in DOMAIN hist :
    hist[i].err = "none" =>
      /\ Under(hist[i].post, DataDir) = {}
      /\ SourceDir \in hist[i].pre => TargetDir \in hist[i].post
      /\ OutsideData(hist[i].pre) \subseteq hist[i].post

C15_Witness ==
  /\ Len(hist) = 1
  /\ hist[1].err = "none"
  /\ {SourceDir, DataOther} \subseteq hist[1].pre
  /\ TargetDir \notin hist[1].pre
  /\ TargetDir \in fs
  /\ DataDir \notin fs
  /\ DataOther \notin fs

\* the lines that end one iteration of download_index_files' loop
IndexGetLines ==
  {"Downloaded", "Index file download interrupted by user."} \cup IndexErrorLines

IndexGets == Cardinality({i \in DOMAIN log : log[i].msg \in IndexGetLines})

\* C16: every run ends, with exit code 0 or a non-zero one, and stays ended;
\* it makes at most two source attempts and at most two index-fetch batches
\* of three URLs each.
C16_Terminates ==
  /\ <>Terminated
  /\ [](Terminated <=> exit_code \in {0, 1, 130})
  /\ [](~Terminated <=> exit_code = -1)
  /\ [][Terminated => (Terminated' /\ exit_code' = exit_code)]_vars
  /\ [](/\ Count(KaggleAttemptLine) + Count(HFAttemptLine) <= 2
        /\ Count(IndexStartLine) <= 2
        /\ IndexGets <= 2 * NumIndexFiles)

C16_Witness ==
  /\ Terminated
  /\ exit_code = 0
  /\ Count(KaggleAttemptLine) + Count(HFAttemptLine) = 2
  /\ Count(IndexStartLine) = 2
  /\ IndexGets = 2 * NumIndexFiles

====
